---- MODULE Spec2Model ----
(***************************************************************************)
(* A model of the feature-composition pipeline of create-vue-vite-app:     *)
(* main() of src/index.ts, the feature providers of src/core/*.ts, the     *)
(* entry-file rewriter updateMainFile, the manifest writers                *)
(* updatePackageJson / installDependencies / runPostInstallTasks, the      *)
(* JSON helpers of utils.ts and its template renderer copyTemplate.        *)
(*                                                                         *)
(* JavaScript values are modelled as follows.                              *)
(*   - an array is a sequence;                                             *)
(*   - an object is a sequence of <<key, value>> pairs with distinct keys, *)
(*     in insertion order (the order Object.keys and JSON.stringify use);  *)
(*   - an optional field is None (absent / undefined) or Some(v);          *)
(*   - a text file is a sequence of text chunks, NL being a line break;    *)
(*   - a template text is a sequence of tokens (line break, blanks, word,  *)
(*     placeholder), on which the regular expressions of copyTemplate are  *)
(*     computed position by position.                                      *)
(***************************************************************************)
EXTENDS Integers, Sequences, FiniteSets, TLC

VARIABLES
  pc,               \* position of main(): the step to run next
  i,                \* index of the loop over Object.entries(featureSetups)
  options,          \* the UserOptions record returned by promptUserOptions
  featureSetups,    \* the ordered provider table main() iterates
  allDependencies, allDevDependencies, pkgUpdates,
  allImportsToAdd, allUsesToAdd,   \* the accumulators of main()
  mainFile,         \* src/main.{js,ts} on disk
  pkgFile,          \* package.json on disk
  seedMain, seedPkg,\* what the scaffolding step left on disk (never changed)
  log,              \* the observable steps of the run, in order
  err,              \* the step whose error ended the run, "" while there is none
  written,          \* the files the providers have written under projectPath
  missing,          \* the template a provider did not find, "" while there is none
  template,         \* copyTemplate: the template file under templates/
  replacements,     \* copyTemplate: Object.entries(replacements)
  rcontent,         \* copyTemplate: the local variable content
  entry,            \* copyTemplate: index of the loop over the entries
  rpc,              \* copyTemplate: position of the call
  installArgs,      \* the name lists installDependencies was called with, << >> before
  argName,          \* the command line: --name
  argTemplate,      \* the command line: --template
  dirs,             \* the directories under the current working directory
  viteConfig,       \* setupLightningCSS: vite.config.{js,ts} on disk
  lpc               \* setupLightningCSS: position of the call

vars == <<pc, i, options, featureSetups, allDependencies, allDevDependencies,
          pkgUpdates, allImportsToAdd, allUsesToAdd, mainFile, pkgFile,
          seedMain, seedPkg, log, err, written, missing,
          template, replacements, rcontent, entry, rpc,
          installArgs, argName, argTemplate, dirs, viteConfig, lpc>>

renderVars == <<template, replacements, rcontent, entry, rpc>>
promptVars == <<argName, argTemplate, dirs>>

---------------------------------------------------------------------------
(* Bounds *)

\* the largest number of mount expressions in a scaffolded entry file
MaxMounts == 2

\* the largest number of tokens of a template text
MaxLen == 4

\* the largest number of names the project-name question refuses in a run
MaxRefused == 2

\* the largest number of lines of a build config
MaxLines == 3

---------------------------------------------------------------------------
(* JavaScript values *)

None == << >>
Some(v) == <<v>>
IsSome(o) == Len(o) = 1
Val(o) == o[1]

\* obj || {}  and  ...obj  of a possibly undefined object
OrEmpty(o) == IF IsSome(o) THEN Val(o) ELSE << >>

Keys(obj) == [k \in 1..Len(obj) |-> obj[k][1]]
KeySet(obj) == {obj[k][1] : k \in 1..Len(obj)}
Has(obj, key) == \E k \in 1..Len(obj) : obj[k][1] = key
Get(obj, key) == obj[CHOOSE k \in 1..Len(obj) : obj[k][1] = key][2]

\* obj[key] = value: an existing key keeps its place, a new key goes last
SetKey(obj, key, value) ==
  IF Has(obj, key)
  THEN [k \in 1..Len(obj) |-> IF obj[k][1] = key THEN <<key, value>> ELSE obj[k]]
  ELSE Append(obj, <<key, value>>)

\* { ...a, ...b }  and  Object.assign(a, b)
RECURSIVE Spread(_, _)
Spread(a, b) ==
  IF b = << >> THEN a
  ELSE Spread(SetKey(a, b[1][1], b[1][2]), Tail(b))

RECURSIVE Concat(_)
Concat(seqs) == IF seqs = << >> THEN << >> ELSE Head(seqs) \o Concat(Tail(seqs))

\* [...new Set(xs)]: first occurrences, in order
RECURSIVE Dedupe(_)
Dedupe(xs) ==
  IF xs = << >> THEN << >>
  ELSE LET init == Dedupe(SubSeq(xs, 1, Len(xs) - 1))
           last == xs[Len(xs)]
       IN IF \E k \in 1..Len(init) : init[k] = last THEN init ELSE Append(init, last)

\* The names that occur as dependency keys, in ascending UTF-16 code unit
\* order, which is the order Array.prototype.sort() uses without a comparator.
CodeUnitOrder ==
  << "@antfu/eslint-config", "@commitlint/cli", "@commitlint/config-conventional",
     "@unocss/eslint-plugin", "@vitejs/plugin-vue", "browserslist", "commitizen",
     "cz-conventional-changelog", "eslint", "husky", "jiti", "less",
     "lightningcss", "lint-staged", "pinia", "pnpm", "sass-embedded",
     "typescript", "unocss", "vite", "vue", "vue-router", "z-lib" >>

Rank(name) == CHOOSE k \in 1..Len(CodeUnitOrder) : CodeUnitOrder[k] = name

\* insertion of one key into an ascending list of keys
RECURSIVE InsertKey(_, _)
InsertKey(sorted, key) ==
  IF sorted = << >> THEN <<key>>
  ELSE IF Rank(key) < Rank(Head(sorted)) THEN <<key>> \o sorted
  ELSE <<Head(sorted)>> \o InsertKey(Tail(sorted), key)

\* Object.keys(obj).sort()
RECURSIVE SortKeys(_)
SortKeys(keys) ==
  IF keys = << >> THEN << >>
  ELSE InsertKey(SortKeys(Tail(keys)), Head(keys))

\* sortObjectKeys that returns the object in the order it found it
sortObjectKeysAsFound(obj) == obj

\* sortObjectKeys: a new object with the keys of obj in sorted order
sortObjectKeys(obj) ==
  LET sortedKeys == SortKeys(Keys(obj))
  IN [k \in 1..Len(sortedKeys) |-> <<sortedKeys[k], Get(obj, sortedKeys[k])>>]

---------------------------------------------------------------------------
(* The feature providers: the FeatureResult each one returns *)

\* a test that takes everything but false for true
TruthyUnlessFalse(v) == v # "false"

\* if (v): of the values an option takes, only true passes
Truthy(v) == v = "true"

FeatureResult(deps, devDeps, scripts, lintStaged, imports, uses) ==
  [dependencies |-> deps, devDependencies |-> devDeps, scripts |-> scripts,
   lintStaged |-> lintStaged, importsToAdd |-> imports, usesToAdd |-> uses]

setupRouter(o) ==
  FeatureResult(<<"vue-router">>, << >>, None, None,
                Some(<<"import router from './router'">>), Some(<<".use(router)">>))

setupPinia(o) ==
  FeatureResult(<<"pinia">>, << >>, None, None,
                Some(<<"import pinia from './store'">>), Some(<<".use(pinia)">>))

setupEslint(o) ==
  FeatureResult(<< >>,
                <<"eslint", "@antfu/eslint-config">>
                  \o (IF Truthy(o.needsTypeScript) THEN <<"jiti">> ELSE << >>),
                Some(<< <<"lint", "eslint . --fix">> >>), None, None, None)

setupUnoCSS(o) ==
  FeatureResult(<< >>, <<"unocss", "@unocss/eslint-plugin">>, None, None,
                Some(<<"import 'virtual:uno.css'">>), Some(<< >>))

GitHooksDevDependencies ==
  <<"husky", "lint-staged", "commitizen", "cz-conventional-changelog",
    "@commitlint/cli", "@commitlint/config-conventional">>

setupGitHooks(o) ==
  FeatureResult(<< >>, GitHooksDevDependencies,
                Some(<< <<"cz", "cz">> >>),
                Some(<< <<"*.{js,ts,vue}", "npx eslint --fix">> >>), None, None)

\* the earlier generation of the git-hooks provider, kept in index.ts
setupGitHooksV1(o) ==
  FeatureResult(<< >>, GitHooksDevDependencies,
                Some(<< <<"cz", "cz">> >>),
                Some(<< <<"*.{js,ts,vue}", "eslint --fix">> >>), None, None)

setupLightningCSS(o) ==
  FeatureResult(<< >>, <<"lightningcss", "browserslist">>, None, None, None, None)

\* setupFn(projectPath, options) for the function registered under a name
CallSetup(fn, o) ==
  CASE fn = "setupRouter" -> setupRouter(o)
    [] fn = "setupPinia" -> setupPinia(o)
    [] fn = "setupEslint" -> setupEslint(o)
    [] fn = "setupUnoCSS" -> setupUnoCSS(o)
    [] fn = "setupGitHooks" -> setupGitHooks(o)
    [] fn = "setupGitHooksV1" -> setupGitHooksV1(o)

\* the files a provider renders: fs.writeFileSync(target, copyTemplate(template)),
\* in the order of its statements
TemplateStep(templateName, targetFile) == [template |-> templateName, target |-> targetFile]
Ext(o) == IF Truthy(o.needsTypeScript) THEN "ts" ELSE "js"
TemplateSteps(fn, o) ==
  CASE fn = "setupRouter" ->
         <<TemplateStep("router/router." \o Ext(o) \o ".tpl", "src/router/index." \o Ext(o)),
           TemplateStep("Home.vue.tpl", "src/views/Home.vue")>>
    [] fn = "setupPinia" ->
         <<TemplateStep("store/store-index." \o Ext(o) \o ".tpl", "src/store/index." \o Ext(o)),
           TemplateStep("store/store-counter." \o Ext(o) \o ".tpl", "src/store/counter." \o Ext(o))>>
    [] fn = "setupEslint" ->
         <<TemplateStep("eslint.config.js.tpl", "eslint.config." \o Ext(o))>>
    [] fn = "setupUnoCSS" ->
         <<TemplateStep("uno.config.js.tpl", "uno.config." \o Ext(o))>>
    [] fn \in {"setupGitHooks", "setupGitHooksV1"} ->
         <<TemplateStep("commitlint.config.js.tpl", "commitlint.config.js")>>

\* the targets of the first n steps
Targets(steps, n) == {steps[k].target : k \in 1..n}

\* the provider table of main(), in the order Object.entries yields it
DeclaredSetups ==
  << <<"needsRouter", "setupRouter">>,
     <<"needsPinia", "setupPinia">>,
     <<"needsEslint", "setupEslint">>,
     <<"needsUnoCSS", "setupUnoCSS">>,
     <<"needsGitCommit", "setupGitHooks">> >>

---------------------------------------------------------------------------
(* The inputs of a run *)

Toggle == {"true", "false"}

\* needsGitCommit is left undefined when the question is skipped
UserOptions ==
  [packageManager : {"pnpm", "npm"},
   needsTypeScript : Toggle,
   needsRouter : Toggle,
   needsPinia : Toggle,
   needsEslint : Toggle,
   cssOption : {"none", "sass", "less", "lightningcss"},
   needsUnoCSS : Toggle,
   needsGitCommit : Toggle \cup {"undefined"}]

\* provider tables other than the one main() declares: the declared entries
\* in reverse order, and a table that registers both generations of the
\* git-hooks provider
ReversedSetups ==
  [k \in 1..Len(DeclaredSetups) |-> DeclaredSetups[Len(DeclaredSetups) + 1 - k]]

TwoHooksSetups ==
  << <<"needsRouter", "setupRouter">>,
     <<"needsPinia", "setupPinia">>,
     <<"needsEslint", "setupEslint">>,
     <<"needsUnoCSS", "setupGitHooksV1">>,
     <<"needsGitCommit", "setupGitHooks">> >>

SetupTables == {DeclaredSetups, ReversedSetups, TwoHooksSetups}

NL == "\n"
MountSQ == "createApp(App).mount('#app')"
MountDQ == "createApp(App).mount(\"#app\")"

\* the entry file `create vite` writes, up to its mount statements
EntryHead ==
  <<"import { createApp } from 'vue'", NL, "import './style.css'", NL,
    "import App from './App.vue'", NL, NL>>

RECURSIVE Repeat(_, _)
Repeat(chunks, n) == IF n = 0 THEN << >> ELSE chunks \o Repeat(chunks, n - 1)

File(content) == [exists |-> TRUE, content |-> content]
NoFile == [exists |-> FALSE, content |-> << >>]

\* entry files the scaffolding step may leave: none, or the head followed by
\* 0..MaxMounts mount statements in either quote style
SeedMainFiles ==
  {NoFile} \cup
  {File(EntryHead \o Repeat(<<m, NL>>, n)) : m \in {MountSQ, MountDQ}, n \in 0..MaxMounts}

Manifest(other, scripts, lintStaged, deps, devDeps, config) ==
  [other |-> other, scripts |-> scripts, lintStaged |-> lintStaged,
   dependencies |-> deps, devDependencies |-> devDeps, config |-> config]

ManifestHead ==
  << <<"name", "vite-demo">>, <<"private", "true">>,
     <<"version", "0.0.0">>, <<"type", "module">> >>

\* the manifest of the vue template of create-vite
ViteManifest ==
  Manifest(ManifestHead,
           Some(<< <<"dev", "vite">>, <<"build", "vite build">>, <<"preview", "vite preview">> >>),
           None,
           Some(<< <<"vue", "^3.5.0">> >>),
           Some(<< <<"@vitejs/plugin-vue", "^6.0.0">>, <<"vite", "^7.0.0">> >>),
           None)

\* a manifest that already has entries under the keys the features use,
\* unsorted dependency maps and a config field
BusyManifest ==
  Manifest(ManifestHead,
           Some(<< <<"dev", "vite">>, <<"lint", "old-lint">> >>),
           Some(<< <<"*.css", "stylelint">>, <<"*.{js,ts,vue}", "prettier">> >>),
           Some(<< <<"z-lib", "1.0">>, <<"pinia", "^2.0.0">>, <<"vue", "^3.5.0">> >>),
           Some(<< <<"vite", "^7.0.0">>, <<"husky", "^8.0.0">>, <<"typescript", "~5.8.0">> >>),
           Some(<< <<"registry", "https:registry.example">> >>))

\* a manifest without any of the optional maps
BareManifest == Manifest(ManifestHead, None, None, None, None, None)

JsonFile(doc) == [state |-> "json", doc |-> doc]
MissingJson == [state |-> "missing", doc |-> BareManifest]

SeedPkgFiles ==
  {MissingJson, [state |-> "unparseable", doc |-> BareManifest], JsonFile(ViteManifest), JsonFile(BusyManifest),
   JsonFile(BareManifest)}

\* readJsonFile throws when the file is missing or JSON.parse rejects it
readJsonFileThrows(file) == file.state # "json"
readJsonFile(file) == file.doc
\* writeJsonFile: JSON.stringify keeps the keys in insertion order and drops
\* undefined fields
writeJsonFile(doc) == JsonFile(doc)

---------------------------------------------------------------------------
(* copyTemplate of utils.ts: texts, contexts and regular expressions *)

\* A template text is a sequence of tokens: a line break, a run of blanks, a
\* word of plain text, or a placeholder "{{ name }}". v holds the characters
\* of the word or of the name.
Newline == [t |-> "nl", v |-> << >>]
Blank == [t |-> "ws", v |-> << >>]
Word(chars) == [t |-> "txt", v |-> chars]
Placeholder(name) == [t |-> "ph", v |-> name]

\* a context value: a string (a text) or a boolean; String(value) is its text
Str(text) == [type |-> "string", text |-> text]
Bool(b) == [type |-> "boolean", text |-> <<Word(<<b>>)>>]
String(value) == value.text
IsEmptyString(value) == value.type = "string" /\ value.text = << >>

\* \s of a regular expression
IsSpace(tok) == tok.t \in {"nl", "ws"}

\* ^ with the m flag: the start of the text or the position after a line break
AtLineStart(text, pos) == pos = 1 \/ text[pos - 1].t = "nl"

\* \s* from pos: the first position at or after pos that holds no white space
RECURSIVE SkipSpace(_, _)
SkipSpace(text, pos) ==
  IF pos > Len(text) \/ ~IsSpace(text[pos]) THEN pos ELSE SkipSpace(text, pos + 1)

Max(S) == CHOOSE m \in S : \A n \in S : n <= m

\* \s*$\n? after the placeholder at q: the last position of the match, 0 when
\* the placeholder is followed by other text on its line. \s* runs over line
\* breaks, $ needs a line break or the end of the text to follow.
TrailEnd(text, q) ==
  LET r == SkipSpace(text, q + 1)
      breaks == {k \in (q + 1)..(r - 1) : text[k].t = "nl"}
  IN  IF r > Len(text) THEN Len(text)
      ELSE IF breaks # {} THEN Max(breaks) ELSE 0

MetaChars == {".", "*", "+", "?", "^", "$", "{", "}", "(", ")", "|", "[", "]", "\\"}

\* the name as it is, no character escaped
EscapedPlaceholderRaw(placeholder) == placeholder

\* placeholder.replace(/[.*+?^${}()|[\]\\]/g, '\\$&')
EscapedPlaceholder(placeholder) ==
  Concat([k \in 1..Len(placeholder) |->
            IF placeholder[k] \in MetaChars THEN <<"\\", placeholder[k]>>
            ELSE <<placeholder[k]>>])

\* the atoms of the source of a regular expression: an escaped character is
\* that character, a bare "." is any character, another character is itself
\* (the keys of the contexts below hold no other metacharacter)
RECURSIVE Atoms(_)
Atoms(source) ==
  IF source = << >> THEN << >>
  ELSE IF Head(source) = "\\" /\ Len(source) >= 2
       THEN <<[any |-> FALSE, c |-> source[2]]>> \o Atoms(Tail(Tail(source)))
       ELSE <<[any |-> Head(source) = ".", c |-> Head(source)]>> \o Atoms(Tail(source))

\* "{{ " source " }}" matches the placeholder token tok
MatchesToken(source, tok) ==
  LET atoms == Atoms(source) IN
    /\ tok.t = "ph"
    /\ Len(atoms) = Len(tok.v)
    /\ \A k \in 1..Len(atoms) : atoms[k].any \/ atoms[k].c = tok.v[k]

\* new RegExp(`^\\s*{{ ${escapedPlaceholder} }}\\s*$\n?`, 'gm')
lineRegex(escapedPlaceholder) == [kind |-> "line", source |-> escapedPlaceholder]

\* /^\s*{{ .* }}\s*$\n?/gm
REMAINING_PLACEHOLDERS_REGEX == [kind |-> "remaining", source |-> << >>]

\* the last token of the line of q that is not a blank
LastOnLine(text, q) ==
  Max({m \in q..Len(text) :
         /\ text[m].t \notin {"nl", "ws"}
         /\ \A k \in q..m : text[k].t # "nl"})

\* MatchEnd with "{{ .* }}" matching a line whatever its tokens are
MatchEndAnyLine(regex, text, pos) ==
  LET q == SkipSpace(text, pos) IN
    IF q > Len(text) THEN 0
    ELSE IF regex.kind = "line"
         THEN IF MatchesToken(regex.source, text[q]) THEN TrailEnd(text, q) ELSE 0
         ELSE TrailEnd(text, LastOnLine(text, q))

\* the last position of the match of regex that starts at the line start pos,
\* 0 when there is none. "{{ .* }}" is greedy within its line: it runs from
\* the first placeholder of the line to the last one.
MatchEnd(regex, text, pos) ==
  LET q == SkipSpace(text, pos) IN
    IF q > Len(text) \/ text[q].t # "ph" THEN 0
    ELSE IF regex.kind = "line"
         THEN IF MatchesToken(regex.source, text[q]) THEN TrailEnd(text, q) ELSE 0
         ELSE LET m == LastOnLine(text, q) IN
                IF text[m].t = "ph" THEN TrailEnd(text, m) ELSE 0

\* regex.test(text)
Test(regex, text) ==
  \E pos \in 1..Len(text) : AtLineStart(text, pos) /\ MatchEnd(regex, text, pos) # 0

\* text.replace(regex, '') from position pos on, for the two line expressions
RECURSIVE RemoveMatches(_, _, _)
RemoveMatches(regex, text, pos) ==
  IF pos > Len(text) THEN << >>
  ELSE LET e == IF AtLineStart(text, pos) THEN MatchEnd(regex, text, pos) ELSE 0 IN
         IF e # 0 THEN RemoveMatches(regex, text, e + 1)
         ELSE <<text[pos]>> \o RemoveMatches(regex, text, pos + 1)

\* the replacement text of String.prototype.replace for one match: "$&" in it
\* stands for the matched text
DollarAmp == Word(<<"$", "&">>)
Expand(replacement, matched) ==
  [k \in 1..Len(replacement) |->
     IF replacement[k] = DollarAmp THEN matched ELSE replacement[k]]

\* text.replace(new RegExp(`{{ ${escapedPlaceholder} }}`, 'g'), String(value))
ReplaceInline(escapedPlaceholder, text, value) ==
  Concat([k \in 1..Len(text) |->
            IF MatchesToken(escapedPlaceholder, text[k])
            THEN Expand(String(value), text[k]) ELSE <<text[k]>>])

\* one round of the loop of copyTemplate: the body of for (const [placeholder, value] ...)
copyTemplateEntry(text, placeholder, value) ==
  LET escapedPlaceholder == EscapedPlaceholder(placeholder) IN
    IF IsEmptyString(value) /\ Test(lineRegex(escapedPlaceholder), text)
    THEN RemoveMatches(lineRegex(escapedPlaceholder), text, 1)
    ELSE ReplaceInline(escapedPlaceholder, text, value)

\* the loop of copyTemplate over the entries from index k on
RECURSIVE copyTemplateLoop(_, _, _)
copyTemplateLoop(text, entries, k) ==
  IF k > Len(entries) THEN text
  ELSE copyTemplateLoop(copyTemplateEntry(text, entries[k][1], entries[k][2]), entries, k + 1)

\* copyTemplate on a template that exists
copyTemplateText(text, entries) ==
  RemoveMatches(REMAINING_PLACEHOLDERS_REGEX, copyTemplateLoop(text, entries, 1), 1)

(* The inputs of copyTemplate *)

NameA == <<"a">>
NameDot == <<"a", ".", "c">>
NameABC == <<"a", "b", "c">>
Names == {NameA, NameDot, NameABC}

X == Word(<<"x">>)     \* a word of the template
V == Word(<<"v">>)     \* a word of a context value

\* the texts over a line break, a blank, a word and the placeholders
TemplateTexts ==
  UNION {[1..n -> {Newline, Blank, X} \cup {Placeholder(n2) : n2 \in Names}] : n \in 0..MaxLen}

\* '', a word, true, false, a value that is a placeholder, a value with "$&"
Values ==
  {Str(<< >>), Str(<<V>>), Bool("true"), Bool("false"),
   Str(<<Placeholder(NameABC)>>), Str(<<DollarAmp>>)}

PairValues == {Str(<< >>), Str(<<V>>), Str(<<Placeholder(NameABC)>>)}

\* Object.entries(replacements): at most two entries with distinct keys
Contexts ==
  {<< >>}
  \cup {<< <<k, v>> >> : k \in Names, v \in Values}
  \cup {<< <<k[1], v[1]>>, <<k[2], v[2]>> >> :
          k \in {kk \in Names \X Names : kk[1] # kk[2]}, v \in PairValues \X PairValues}

---------------------------------------------------------------------------
(* main() *)

EmptyUpdates == [scripts |-> Some(<< >>), lintStaged |-> None]

InitWith(tables) ==
  /\ pc = "scaffoldVite"
  /\ i = 1
  /\ options \in UserOptions
  /\ featureSetups \in tables
  /\ allDependencies = << >>
  /\ allDevDependencies = << >>
  /\ pkgUpdates = EmptyUpdates
  /\ allImportsToAdd = << >>
  /\ allUsesToAdd = << >>
  /\ mainFile = NoFile
  /\ pkgFile = MissingJson
  /\ seedMain = NoFile
  /\ seedPkg = MissingJson
  /\ log = << >>
  /\ err = ""
  /\ written = {}
  /\ missing = ""
  /\ installArgs = << >>
  /\ argName = None
  /\ argTemplate = None
  /\ dirs = {}
  /\ viteConfig = NoFile
  /\ lpc = "idle"
  /\ template = NoFile
  /\ replacements = << >>
  /\ rcontent = None
  /\ entry = 1
  /\ rpc = "idle"

Init == InitWith({DeclaredSetups})

\* Abort with the error swallowed: main() goes on with its last steps
AbortAndGoOn(step) == pc' = "generateReadme" /\ err' = step

\* the error of a step reaches the catch of the command action, or a failed
\* command ends the process inside exec: process.exit(1)
Abort(step) == pc' = "exit1" /\ err' = step

\* createProject and scaffoldVite: the external generator writes the seed files
ScaffoldVite ==
  /\ pc = "scaffoldVite"
  /\ \E m \in SeedMainFiles, p \in SeedPkgFiles :
       /\ mainFile' = m /\ seedMain' = m
       /\ pkgFile' = p /\ seedPkg' = p
  /\ pc' = "loop"
  /\ log' = Append(log, "exec create vite")
  /\ UNCHANGED <<i, options, featureSetups, err, allDependencies, allDevDependencies,
                 pkgUpdates, allImportsToAdd, allUsesToAdd>>
  /\ UNCHANGED <<written, missing, installArgs, renderVars, promptVars, viteConfig, lpc>>

ScaffoldViteFails ==
  /\ pc = "scaffoldVite"
  /\ Abort("scaffoldVite")
  /\ log' = Append(log, "exec create vite")
  /\ UNCHANGED <<i, options, featureSetups, allDependencies, allDevDependencies,
                 pkgUpdates, allImportsToAdd, allUsesToAdd, mainFile, pkgFile,
                 seedMain, seedPkg>>
  /\ UNCHANGED <<written, missing, installArgs, renderVars, promptVars, viteConfig, lpc>>

\* the value of the accumulators of main() as one record
Accumulators ==
  [allDependencies |-> allDependencies, allDevDependencies |-> allDevDependencies,
   pkgUpdates |-> pkgUpdates, allImportsToAdd |-> allImportsToAdd,
   allUsesToAdd |-> allUsesToAdd]

\* Accumulate with the imports and use-calls of a result put in front of the
\* ones already collected
AccumulatePrepend(acc, result) ==
  [allDependencies |-> acc.allDependencies \o result.dependencies,
   allDevDependencies |-> acc.allDevDependencies \o result.devDependencies,
   pkgUpdates |->
     [scripts |-> IF IsSome(result.scripts)
                  THEN Some(Spread(Val(acc.pkgUpdates.scripts), Val(result.scripts)))
                  ELSE acc.pkgUpdates.scripts,
      lintStaged |-> IF IsSome(result.lintStaged)
                     THEN Some(Spread(OrEmpty(acc.pkgUpdates.lintStaged), Val(result.lintStaged)))
                     ELSE acc.pkgUpdates.lintStaged],
   allImportsToAdd |-> OrEmpty(result.importsToAdd) \o acc.allImportsToAdd,
   allUsesToAdd |-> OrEmpty(result.usesToAdd) \o acc.allUsesToAdd]

\* the body of the provider loop after setupFn returned result
Accumulate(acc, result) ==
  [allDependencies |-> acc.allDependencies \o result.dependencies,
   allDevDependencies |-> acc.allDevDependencies \o result.devDependencies,
   pkgUpdates |->
     [scripts |-> IF IsSome(result.scripts)
                  THEN Some(Spread(Val(acc.pkgUpdates.scripts), Val(result.scripts)))
                  ELSE acc.pkgUpdates.scripts,
      lintStaged |-> IF IsSome(result.lintStaged)
                     THEN Some(Spread(OrEmpty(acc.pkgUpdates.lintStaged), Val(result.lintStaged)))
                     ELSE acc.pkgUpdates.lintStaged],
   allImportsToAdd |-> IF IsSome(result.importsToAdd)
                       THEN acc.allImportsToAdd \o Val(result.importsToAdd)
                       ELSE acc.allImportsToAdd,
   allUsesToAdd |-> IF IsSome(result.usesToAdd)
                    THEN acc.allUsesToAdd \o Val(result.usesToAdd)
                    ELSE acc.allUsesToAdd]

SetAccumulators(acc) ==
  /\ allDependencies' = acc.allDependencies
  /\ allDevDependencies' = acc.allDevDependencies
  /\ pkgUpdates' = acc.pkgUpdates
  /\ allImportsToAdd' = acc.allImportsToAdd
  /\ allUsesToAdd' = acc.allUsesToAdd

\* the loop moves to the next entry, or leaves after the last one
Advance ==
  /\ i' = i + 1
  /\ pc' = IF i < Len(featureSetups) THEN "loop" ELSE "css"

InLoop == pc = "loop" /\ i <= Len(featureSetups)

\* if (options[option]) is false: the entry is passed over
LoopSkip ==
  /\ InLoop
  /\ ~Truthy(options[featureSetups[i][1]])
  /\ Advance
  /\ UNCHANGED <<options, featureSetups, err, allDependencies, allDevDependencies,
                 pkgUpdates, allImportsToAdd, allUsesToAdd, mainFile, pkgFile,
                 seedMain, seedPkg, log>>
  /\ UNCHANGED <<written, missing, installArgs, renderVars, promptVars, viteConfig, lpc>>

\* LoopInvoke that also puts the imports of the result into the entry file at
\* once
LoopInvokeEager ==
  /\ InLoop
  /\ Truthy(options[featureSetups[i][1]])
  /\ SetAccumulators(Accumulate(Accumulators, CallSetup(featureSetups[i][2], options)))
  /\ log' = Append(log, featureSetups[i][2])
  /\ Advance
  /\ mainFile' = IF mainFile.exists
                 THEN File(OrEmpty(CallSetup(featureSetups[i][2], options).importsToAdd)
                             \o <<NL>> \o mainFile.content)
                 ELSE mainFile
  /\ UNCHANGED <<options, featureSetups, err, pkgFile, seedMain, seedPkg>>
  /\ written' = written \cup Targets(TemplateSteps(featureSetups[i][2], options),
                                      Len(TemplateSteps(featureSetups[i][2], options)))
  /\ UNCHANGED <<missing, installArgs, renderVars, promptVars, viteConfig, lpc>>

\* LoopInvoke with a provider that installs its own packages, as the
\* providers of the first generation did
LoopInvokeInstalls ==
  /\ InLoop
  /\ Truthy(options[featureSetups[i][1]])
  /\ SetAccumulators(Accumulate(Accumulators, CallSetup(featureSetups[i][2], options)))
  /\ log' = log \o <<featureSetups[i][2], "exec install">>
  /\ Advance
  /\ UNCHANGED <<options, featureSetups, err, mainFile, pkgFile, seedMain, seedPkg>>
  /\ written' = written \cup Targets(TemplateSteps(featureSetups[i][2], options),
                                      Len(TemplateSteps(featureSetups[i][2], options)))
  /\ UNCHANGED <<missing, installArgs, renderVars, promptVars, viteConfig, lpc>>

\* setupFn returns and its result is merged
LoopInvoke ==
  /\ InLoop
  /\ Truthy(options[featureSetups[i][1]])
  /\ SetAccumulators(Accumulate(Accumulators, CallSetup(featureSetups[i][2], options)))
  /\ log' = Append(log, featureSetups[i][2])
  /\ Advance
  /\ UNCHANGED <<options, featureSetups, err, mainFile, pkgFile, seedMain, seedPkg>>
  /\ written' = written \cup Targets(TemplateSteps(featureSetups[i][2], options),
                                      Len(TemplateSteps(featureSetups[i][2], options)))
  /\ UNCHANGED <<missing, installArgs, renderVars, promptVars, viteConfig, lpc>>

\* LoopThrow with copyTemplate returning '' for a template that is missing:
\* the provider writes the empty target and throws on a later statement
LoopThrowEmptyFile ==
  /\ InLoop
  /\ Truthy(options[featureSetups[i][1]])
  /\ log' = Append(log, featureSetups[i][2])
  /\ Abort(featureSetups[i][2])
  /\ UNCHANGED <<i, options, featureSetups, allDependencies, allDevDependencies,
                 pkgUpdates, allImportsToAdd, allUsesToAdd, mainFile, pkgFile,
                 seedMain, seedPkg>>
  /\ LET steps == TemplateSteps(featureSetups[i][2], options) IN
       \E n \in 1..(Len(steps) + 1) :
         /\ written' = written \cup Targets(steps, Len(steps))
         /\ missing' = IF n <= Len(steps) THEN steps[n].template ELSE ""
  /\ UNCHANGED <<installArgs, renderVars, promptVars, viteConfig, lpc>>

\* setupFn throws: copyTemplate does not find the template of its n-th file
\* (the files before it are written), or a file it reads afterwards is missing
LoopThrow ==
  /\ InLoop
  /\ Truthy(options[featureSetups[i][1]])
  /\ log' = Append(log, featureSetups[i][2])
  /\ Abort(featureSetups[i][2])
  /\ UNCHANGED <<i, options, featureSetups, allDependencies, allDevDependencies,
                 pkgUpdates, allImportsToAdd, allUsesToAdd, mainFile, pkgFile,
                 seedMain, seedPkg>>
  /\ LET steps == TemplateSteps(featureSetups[i][2], options) IN
       \E n \in 1..(Len(steps) + 1) :
         /\ written' = written \cup Targets(steps, n - 1)
         /\ missing' = IF n <= Len(steps) THEN steps[n].template ELSE ""
  /\ UNCHANGED <<installArgs, renderVars, promptVars, viteConfig, lpc>>

\* the cssOption branches after the loop
CssOption ==
  /\ pc = "css"
  /\ allDevDependencies' =
       allDevDependencies \o
         (CASE options.cssOption = "sass" -> <<"sass-embedded">>
            [] options.cssOption = "less" -> <<"less">>
            [] options.cssOption = "lightningcss" -> setupLightningCSS(options).devDependencies
            [] OTHER -> << >>)
  /\ log' = IF options.cssOption = "lightningcss"
            THEN Append(log, "setupLightningCSS") ELSE log
  /\ pc' = "updateMainFile"
  /\ UNCHANGED <<i, options, featureSetups, err, allDependencies, pkgUpdates,
                 allImportsToAdd, allUsesToAdd, mainFile, pkgFile, seedMain, seedPkg>>
  /\ UNCHANGED <<written, missing, installArgs, renderVars, promptVars, viteConfig, lpc>>

\* setupLightningCSS throws (the build config is missing)
CssOptionThrow ==
  /\ pc = "css"
  /\ options.cssOption = "lightningcss"
  /\ log' = Append(log, "setupLightningCSS")
  /\ Abort("setupLightningCSS")
  /\ UNCHANGED <<i, options, featureSetups, allDependencies, allDevDependencies,
                 pkgUpdates, allImportsToAdd, allUsesToAdd, mainFile, pkgFile,
                 seedMain, seedPkg>>
  /\ UNCHANGED <<written, missing, installArgs, renderVars, promptVars, viteConfig, lpc>>

---------------------------------------------------------------------------
(* updateMainFile *)

\* mountRegex matches the mount expression with either quote
IsMount(chunk) == chunk \in {MountSQ, MountDQ}

\* importsToAdd.join('\n')
RECURSIVE Join(_)
Join(lines) ==
  IF Len(lines) <= 1 THEN lines
  ELSE <<Head(lines), NL>> \o Join(Tail(lines))

\* appInstanceCode with the use-calls emitted last to first
appInstanceCodeReversed(usesToAdd) ==
  <<"const app = createApp(App);", NL>>
    \o Concat([k \in 1..Len(usesToAdd) |->
                 <<"app" \o usesToAdd[Len(usesToAdd) + 1 - k] \o ";", NL>>])
    \o <<"app.mount('#app');">>

\* the code that replaces the mount expression
appInstanceCode(usesToAdd) ==
  <<"const app = createApp(App);", NL>>
    \o Concat([k \in 1..Len(usesToAdd) |-> <<"app" \o usesToAdd[k] \o ";", NL>>])
    \o <<"app.mount('#app');">>

\* content.replace(mountRegex, code): the regex has no g flag, so only the
\* first match is replaced and a text without a match is returned as it is
ReplaceMount(content, code) ==
  IF \E k \in 1..Len(content) : IsMount(content[k])
  THEN LET first == CHOOSE k \in 1..Len(content) :
                      /\ IsMount(content[k])
                      /\ \A j \in 1..(k - 1) : ~IsMount(content[j])
       IN SubSeq(content, 1, first - 1) \o code \o SubSeq(content, first + 1, Len(content))
  ELSE content

PrependImports(content, importsToAdd) ==
  IF Len(importsToAdd) > 0 THEN Join(importsToAdd) \o <<NL>> \o content ELSE content

\* the text updateMainFile writes for the text it read
updateMainFileContent(content, importsToAdd, usesToAdd) ==
  ReplaceMount(PrependImports(content, importsToAdd), appInstanceCode(usesToAdd))

\* readFileSync throws when the entry file is missing; otherwise the file is
\* rewritten
UpdateMainFile ==
  /\ pc = "updateMainFile"
  /\ IF mainFile.exists
     THEN /\ mainFile' = File(updateMainFileContent(mainFile.content,
                                                   allImportsToAdd, allUsesToAdd))
          /\ log' = Append(log, "write main")
          /\ pc' = "setupVSCode"
          /\ err' = err
     ELSE /\ Abort("updateMainFile")
          /\ UNCHANGED <<mainFile, log>>
  /\ UNCHANGED <<i, options, featureSetups, allDependencies, allDevDependencies,
                 pkgUpdates, allImportsToAdd, allUsesToAdd, pkgFile, seedMain, seedPkg>>
  /\ UNCHANGED <<written, missing, installArgs, renderVars, promptVars, viteConfig, lpc>>

\* setupVSCode writes .vscode/extensions.json and settings.json
SetupVSCode ==
  /\ pc = "setupVSCode"
  /\ log' = Append(log, "setupVSCode")
  /\ pc' = "updatePackageJson"
  /\ UNCHANGED <<i, options, featureSetups, err, allDependencies, allDevDependencies,
                 pkgUpdates, allImportsToAdd, allUsesToAdd, mainFile, pkgFile,
                 seedMain, seedPkg>>
  /\ UNCHANGED <<written, missing, installArgs, renderVars, promptVars, viteConfig, lpc>>

\* setupVSCode throws (its template is missing)
SetupVSCodeThrow ==
  /\ pc = "setupVSCode"
  /\ log' = Append(log, "setupVSCode")
  /\ Abort("setupVSCode")
  /\ UNCHANGED <<i, options, featureSetups, allDependencies, allDevDependencies,
                 pkgUpdates, allImportsToAdd, allUsesToAdd, mainFile, pkgFile,
                 seedMain, seedPkg>>
  /\ UNCHANGED <<written, missing, installArgs, renderVars, promptVars, viteConfig, lpc>>

---------------------------------------------------------------------------
(* The manifest writers *)

\* updatePackageJson that assigns the updates instead of merging them
updatePackageJsonDocAssign(pkg, updates) ==
  [pkg EXCEPT
     !.scripts = IF IsSome(updates.scripts) THEN updates.scripts ELSE @,
     !.lintStaged = IF IsSome(updates.lintStaged) THEN updates.lintStaged ELSE @]

\* updatePackageJson that lets the existing value of a key win
updatePackageJsonDocKeep(pkg, updates) ==
  [pkg EXCEPT
     !.scripts = IF IsSome(updates.scripts)
                 THEN Some(Spread(Val(updates.scripts), OrEmpty(pkg.scripts)))
                 ELSE @,
     !.lintStaged = IF IsSome(updates.lintStaged)
                    THEN Some(Spread(Val(updates.lintStaged), OrEmpty(pkg.lintStaged)))
                    ELSE @]

\* the manifest updatePackageJson writes for the manifest it read
updatePackageJsonDoc(pkg, updates) ==
  [pkg EXCEPT
     !.scripts = IF IsSome(updates.scripts)
                 THEN Some(Spread(OrEmpty(pkg.scripts), Val(updates.scripts)))
                 ELSE @,
     !.lintStaged = IF IsSome(updates.lintStaged)
                    THEN Some(Spread(OrEmpty(pkg.lintStaged), Val(updates.lintStaged)))
                    ELSE @]

\* main() going from updatePackageJson to runPostInstallTasks, the
\* installation left out
UpdatePackageJsonThenHooks ==
  /\ pc = "updatePackageJson"
  /\ IF readJsonFileThrows(pkgFile)
     THEN /\ Abort("updatePackageJson")
          /\ UNCHANGED <<pkgFile, log>>
     ELSE /\ pkgFile' = writeJsonFile(updatePackageJsonDoc(readJsonFile(pkgFile), pkgUpdates))
          /\ log' = Append(log, "write package.json")
          /\ pc' = "runPostInstallTasks"
          /\ err' = err
  /\ UNCHANGED <<i, options, featureSetups, allDependencies, allDevDependencies,
                 pkgUpdates, allImportsToAdd, allUsesToAdd, mainFile, seedMain, seedPkg>>
  /\ UNCHANGED <<written, missing, installArgs, renderVars, promptVars, viteConfig, lpc>>

\* updatePackageJson of main(): the scripts and lint-staged entries are merged
\* into the manifest
UpdatePackageJson ==
  /\ pc = "updatePackageJson"
  /\ IF readJsonFileThrows(pkgFile)
     THEN /\ Abort("updatePackageJson")
          /\ UNCHANGED <<pkgFile, log>>
     ELSE /\ pkgFile' = writeJsonFile(updatePackageJsonDoc(readJsonFile(pkgFile), pkgUpdates))
          /\ log' = Append(log, "write package.json")
          /\ pc' = "installDependencies"
          /\ err' = err
  /\ UNCHANGED <<i, options, featureSetups, allDependencies, allDevDependencies,
                 pkgUpdates, allImportsToAdd, allUsesToAdd, mainFile, seedMain, seedPkg>>
  /\ UNCHANGED <<written, missing, installArgs, renderVars, promptVars, viteConfig, lpc>>

\* names.reduce((acc, dep) => ({ ...acc, [dep]: 'latest' }), obj)
RECURSIVE AddLatest(_, _)
AddLatest(obj, names) ==
  IF names = << >> THEN obj
  ELSE AddLatest(SetKey(obj, Head(names), "latest"), Tail(names))

\* the manifest installDependencies writes for the manifest it read
installDependenciesDoc(pkg, o, deps, devDeps) ==
  LET devs == IF o.packageManager = "pnpm" THEN Append(devDeps, "pnpm") ELSE devDeps
  IN [pkg EXCEPT
        !.dependencies = Some(sortObjectKeys(AddLatest(OrEmpty(pkg.dependencies), deps))),
        !.devDependencies = Some(sortObjectKeys(AddLatest(OrEmpty(pkg.devDependencies), devs)))]

\* InstallDependencies called with the accumulators as they are
InstallDependenciesRaw ==
  /\ pc = "installDependencies"
  /\ IF readJsonFileThrows(pkgFile)
     THEN /\ Abort("installDependencies")
          /\ installArgs' = <<allDependencies, allDevDependencies>>
          /\ UNCHANGED <<pkgFile, log>>
     ELSE /\ pkgFile' = writeJsonFile(installDependenciesDoc(readJsonFile(pkgFile), options,
                                        allDependencies, allDevDependencies))
          /\ installArgs' = <<allDependencies, allDevDependencies>>
          /\ log' = log \o <<"write package.json", "exec install">>
          /\ \E ok \in BOOLEAN :
               IF ok THEN pc' = "runPostInstallTasks" /\ err' = err
               ELSE Abort("exec install")
  /\ UNCHANGED <<i, options, featureSetups, allDependencies, allDevDependencies,
                 pkgUpdates, allImportsToAdd, allUsesToAdd, mainFile, seedMain, seedPkg>>
  /\ UNCHANGED <<written, missing, renderVars, promptVars, viteConfig, lpc>>

\* installDependencies is called with the deduplicated accumulators; it
\* rewrites the manifest and then runs `<packageManager> install`, whose
\* failure ends the run after the manifest was written
InstallDependencies ==
  /\ pc = "installDependencies"
  /\ IF readJsonFileThrows(pkgFile)
     THEN /\ Abort("installDependencies")
          /\ installArgs' = <<Dedupe(allDependencies), Dedupe(allDevDependencies)>>
          /\ UNCHANGED <<pkgFile, log>>
     ELSE /\ pkgFile' = writeJsonFile(installDependenciesDoc(readJsonFile(pkgFile), options,
                                        Dedupe(allDependencies), Dedupe(allDevDependencies)))
          /\ installArgs' = <<Dedupe(allDependencies), Dedupe(allDevDependencies)>>
          /\ log' = log \o <<"write package.json", "exec install">>
          /\ \E ok \in BOOLEAN :
               IF ok THEN pc' = "runPostInstallTasks" /\ err' = err
               ELSE Abort("exec install")
  /\ UNCHANGED <<i, options, featureSetups, allDependencies, allDevDependencies,
                 pkgUpdates, allImportsToAdd, allUsesToAdd, mainFile, seedMain, seedPkg>>
  /\ UNCHANGED <<written, missing, renderVars, promptVars, viteConfig, lpc>>

CommitizenConfig == << <<"commitizen.path", "cz-conventional-changelog">> >>

\* the commands runPostInstallTasks runs for these options, in order; as in
\* exec of utils.ts without throwOnError, a failing command ends the process
PostInstallCommands(o) ==
  (IF Truthy(o.needsEslint) THEN <<"exec eslint">> ELSE << >>)
    \o (IF Truthy(o.needsGitCommit)
        THEN <<"exec git init", "exec husky init", "exec prepare">> ELSE << >>)

\* what a run of runPostInstallTasks does when the command failing is the
\* one named (or "none"): the steps it takes before it stops
PostInstallSteps(o, failing) ==
  LET eslint == IF Truthy(o.needsEslint) THEN <<"exec eslint">> ELSE << >>
      hooks == <<"exec git init", "exec husky init", "write .husky",
                 "write package.json", "exec prepare">>
      upTo(steps) == IF \E k \in 1..Len(steps) : steps[k] = failing
                     THEN SubSeq(steps, 1, CHOOSE k \in 1..Len(steps) : steps[k] = failing)
                     ELSE steps
  IN upTo(eslint \o (IF Truthy(o.needsGitCommit) THEN hooks ELSE << >>))

\* the manifest after the hooks setup: pkg.config is assigned anew
postInstallDoc(pkg) == [pkg EXCEPT !.config = Some(CommitizenConfig)]

\* the statements of the hooks block that are no commands: an error they
\* throw is caught by the catch of the block, which reports it and returns
HooksBlockWrites(o) ==
  IF Truthy(o.needsGitCommit) THEN {"write .husky", "write package.json"} ELSE {}

RunPostInstallTasks ==
  /\ pc = "runPostInstallTasks"
  /\ \E failing \in {"none"} \cup HooksBlockWrites(options)
                      \cup {PostInstallCommands(options)[k] :
                              k \in 1..Len(PostInstallCommands(options))} :
       LET steps == PostInstallSteps(options, failing)
           wrote == /\ \E k \in 1..Len(steps) : steps[k] = "write package.json"
                    /\ failing # "write package.json"
       IN /\ log' = log \o steps
                      \o (IF failing \in HooksBlockWrites(options)
                          THEN <<"fail Git Hooks">> ELSE << >>)
          /\ pkgFile' = IF wrote /\ ~readJsonFileThrows(pkgFile)
                        THEN writeJsonFile(postInstallDoc(readJsonFile(pkgFile)))
                        ELSE pkgFile
          /\ IF failing \in {"none"} \cup HooksBlockWrites(options)
             THEN pc' = "generateReadme" /\ err' = err
             ELSE Abort(failing)
  /\ UNCHANGED <<i, options, featureSetups, allDependencies, allDevDependencies,
                 pkgUpdates, allImportsToAdd, allUsesToAdd, mainFile, seedMain, seedPkg>>
  /\ UNCHANGED <<written, missing, installArgs, renderVars, promptVars, viteConfig, lpc>>

GenerateReadme ==
  /\ pc = "generateReadme"
  /\ log' = Append(log, "write README")
  /\ pc' = "logFinalInstructions"
  /\ UNCHANGED <<i, options, featureSetups, err, allDependencies, allDevDependencies,
                 pkgUpdates, allImportsToAdd, allUsesToAdd, mainFile, pkgFile,
                 seedMain, seedPkg>>
  /\ UNCHANGED <<written, missing, installArgs, renderVars, promptVars, viteConfig, lpc>>

\* renderTemplate throws (a readme template is missing)
GenerateReadmeThrow ==
  /\ pc = "generateReadme"
  /\ Abort("generateReadme")
  /\ UNCHANGED <<i, options, featureSetups, allDependencies, allDevDependencies,
                 pkgUpdates, allImportsToAdd, allUsesToAdd, mainFile, pkgFile,
                 seedMain, seedPkg, log>>
  /\ UNCHANGED <<written, missing, installArgs, renderVars, promptVars, viteConfig, lpc>>

LogFinalInstructions ==
  /\ pc = "logFinalInstructions"
  /\ log' = Append(log, "log success")
  /\ pc' = "done"
  /\ UNCHANGED <<i, options, featureSetups, err, allDependencies, allDevDependencies,
                 pkgUpdates, allImportsToAdd, allUsesToAdd, mainFile, pkgFile,
                 seedMain, seedPkg>>
  /\ UNCHANGED <<written, missing, installArgs, renderVars, promptVars, viteConfig, lpc>>

Next ==
  \/ ScaffoldVite \/ ScaffoldViteFails
  \/ LoopSkip \/ LoopInvoke \/ LoopThrow
  \/ CssOption \/ CssOptionThrow
  \/ UpdateMainFile
  \/ SetupVSCode \/ SetupVSCodeThrow
  \/ UpdatePackageJson
  \/ InstallDependencies
  \/ RunPostInstallTasks
  \/ GenerateReadme \/ GenerateReadmeThrow
  \/ LogFinalInstructions

\* main() with the provider table it declares
Spec == Init /\ [][Next]_vars

\* the provider loop of main() over any of the provider tables
ComposeSpec == InitWith(SetupTables) /\ [][Next]_vars

(* promptUserOptions and createProject *)

\* the names the user passes with --name or types at the prompt
NameInputs == {"", "app", "old", "new"}

EmptyNameMessage == "project name must not be empty"
ExistsMessage(name) == "directory cwd/" \o name \o " already exists"

\* fs.existsSync(path.join(process.cwd(), name)): for the empty name the
\* path is the working directory itself
existsSync(name, existing) == name = "" \/ name \in existing

\* validate with the lookup of the directory made first
validateProjectNameLookupFirst(name, existing) ==
  IF existsSync(name, existing) THEN ExistsMessage(name)
  ELSE IF name = "" THEN EmptyNameMessage
  ELSE "true"

\* validate of the project-name question: true, or the message to show
validateProjectName(name, existing) ==
  IF name = "" THEN EmptyNameMessage
  ELSE IF existsSync(name, existing) THEN ExistsMessage(name)
  ELSE "true"

\* the git-hooks question asked whatever the ESLint answer was
promptAnswersAlwaysAsked(projectName, templateArg) ==
  {o \in [projectName : {projectName},
          packageManager : {"pnpm", "npm"},
          needsTypeScript : Toggle,
          needsRouter : Toggle,
          needsPinia : Toggle,
          needsEslint : Toggle,
          cssPreprocessor : {"none", "sass", "less"},
          needsUnoCSS : Toggle,
          needsGitCommit : Toggle,
          cssOption : {"undefined"}] :
     IsSome(templateArg) =>
       (o.needsTypeScript = "true" <=> Val(templateArg) = "vue-ts")}

\* the records promptUserOptions returns for a project name: the answers to
\* packageManager, needsTypeScript (taken from --template when it is given)
\* and the six questions of the list, the last one asked only when
\* needsEslint was answered with yes. No question is named cssOption: that
\* field of the record is undefined.
promptAnswers(projectName, templateArg) ==
  {o \in [projectName : {projectName},
          packageManager : {"pnpm", "npm"},
          needsTypeScript : Toggle,
          needsRouter : Toggle,
          needsPinia : Toggle,
          needsEslint : Toggle,
          cssPreprocessor : {"none", "sass", "less"},
          needsUnoCSS : Toggle,
          needsGitCommit : Toggle \cup {"undefined"},
          cssOption : {"undefined"}] :
     /\ IsSome(templateArg) =>
          (o.needsTypeScript = "true" <=> Val(templateArg) = "vue-ts")
     /\ o.needsEslint = "true" <=> o.needsGitCommit # "undefined"}

\* the command is started with or without --name and --template
InitPrompt ==
  /\ pc = "promptUserOptions"
  /\ argName \in {None} \cup {Some(n) : n \in NameInputs}
  /\ argTemplate \in {None, Some("vue"), Some("vue-ts")}
  /\ dirs \in SUBSET {"app", "old"}
  /\ options = [projectName |-> ""]
  /\ i = 1
  /\ featureSetups = DeclaredSetups
  /\ allDependencies = << >>
  /\ allDevDependencies = << >>
  /\ pkgUpdates = EmptyUpdates
  /\ allImportsToAdd = << >>
  /\ allUsesToAdd = << >>
  /\ mainFile = NoFile
  /\ pkgFile = MissingJson
  /\ seedMain = NoFile
  /\ seedPkg = MissingJson
  /\ log = << >>
  /\ err = ""
  /\ written = {}
  /\ missing = ""
  /\ installArgs = << >>
  /\ viteConfig = NoFile
  /\ lpc = "idle"
  /\ template = NoFile
  /\ replacements = << >>
  /\ rcontent = None
  /\ entry = 1
  /\ rpc = "idle"

\* the promise resolved whatever the validation says
NameGivenResolves ==
  /\ pc = "promptUserOptions"
  /\ IsSome(argName) /\ Val(argName) # ""
  /\ options' = [projectName |-> Val(argName)]
  /\ pc' = "promptRest"
  /\ UNCHANGED <<log, err>>
  /\ UNCHANGED <<i, featureSetups, allDependencies, allDevDependencies, pkgUpdates,
                 allImportsToAdd, allUsesToAdd, mainFile, pkgFile, seedMain, seedPkg,
                 written, missing, installArgs, promptVars, renderVars, viteConfig, lpc>>

\* name ? new Promise(...) with a name given: reject(result) unless it is valid
NameGiven ==
  /\ pc = "promptUserOptions"
  /\ IsSome(argName) /\ Val(argName) # ""
  /\ LET result == validateProjectName(Val(argName), dirs) IN
       IF result # "true"
       THEN /\ Abort("promptUserOptions")
            /\ log' = Append(log, result)
            /\ UNCHANGED options
       ELSE /\ options' = [projectName |-> Val(argName)]
            /\ pc' = "promptRest"
            /\ UNCHANGED <<log, err>>
  /\ UNCHANGED <<i, featureSetups, allDependencies, allDevDependencies, pkgUpdates,
                 allImportsToAdd, allUsesToAdd, mainFile, pkgFile, seedMain, seedPkg,
                 written, missing, installArgs, promptVars, renderVars, viteConfig, lpc>>

\* the text question: a name the validation refuses gets its message shown
\* and the question stays open, a name it accepts is the project name
NameAsked ==
  /\ pc = "promptUserOptions"
  /\ ~(IsSome(argName) /\ Val(argName) # "")
  /\ \E typed \in NameInputs :
       IF validateProjectName(typed, dirs) = "true"
       THEN /\ options' = [projectName |-> typed]
            /\ pc' = "promptRest"
            /\ UNCHANGED log
       ELSE /\ Len(log) < MaxRefused
            /\ log' = Append(log, validateProjectName(typed, dirs))
            /\ UNCHANGED <<pc, options>>
  /\ UNCHANGED <<err, i, featureSetups, allDependencies, allDevDependencies, pkgUpdates,
                 allImportsToAdd, allUsesToAdd, mainFile, pkgFile, seedMain, seedPkg,
                 written, missing, installArgs, promptVars, renderVars, viteConfig, lpc>>

\* the remaining questions; promptUserOptions returns
PromptRest ==
  /\ pc = "promptRest"
  /\ options' \in promptAnswers(options.projectName, argTemplate)
  /\ pc' = "createProject"
  /\ UNCHANGED <<log, err, i, featureSetups, allDependencies, allDevDependencies, pkgUpdates,
                 allImportsToAdd, allUsesToAdd, mainFile, pkgFile, seedMain, seedPkg,
                 written, missing, installArgs, promptVars, renderVars, viteConfig, lpc>>

\* fs.mkdirSync(path.join(process.cwd(), projectName), { recursive: true });
\* main() goes on with scaffoldVite
CreateProject ==
  /\ pc = "createProject"
  /\ dirs' = dirs \cup {options.projectName}
  /\ pc' = "scaffoldVite"
  /\ log' = Append(log, "mkdir " \o options.projectName)
  /\ UNCHANGED <<err, options, i, featureSetups, allDependencies, allDevDependencies, pkgUpdates,
                 allImportsToAdd, allUsesToAdd, mainFile, pkgFile, seedMain, seedPkg,
                 written, missing, installArgs, argName, argTemplate, renderVars, viteConfig, lpc>>

NextPrompt ==
  \/ NameGiven \/ NameAsked
  \/ PromptRest
  \/ CreateProject

\* the command from its start to the call of scaffoldVite
PromptSpec == InitPrompt /\ [][NextPrompt]_vars

\* the command started with --name app, in a working directory that may hold
\* an app directory already
InitRun ==
  /\ InitPrompt
  /\ argName = Some("app")
  /\ dirs \subseteq {"app"}

\* cssOption is not among the answers, so setupLightningCSS is never reached
NextRun ==
  \/ NameGiven
  \/ PromptRest
  \/ CreateProject
  \/ ScaffoldVite \/ ScaffoldViteFails
  \/ LoopSkip \/ LoopInvoke \/ LoopThrow
  \/ CssOption
  \/ UpdateMainFile
  \/ SetupVSCode \/ SetupVSCodeThrow
  \/ UpdatePackageJson
  \/ InstallDependencies
  \/ RunPostInstallTasks
  \/ GenerateReadme \/ GenerateReadmeThrow
  \/ LogFinalInstructions

\* main() from promptUserOptions to the final message
RunSpec == InitRun /\ [][NextRun]_vars

(* copyTemplate as a state machine *)

\* a call of copyTemplate on any template and any context; main() is not running
InitRender ==
  /\ template \in {NoFile} \cup {File(text) : text \in TemplateTexts}
  /\ replacements \in Contexts
  /\ rcontent = None
  /\ entry = 1
  /\ rpc = "copyTemplate"
  /\ pc = "done"
  /\ i = 1
  /\ options = CHOOSE o \in UserOptions : TRUE
  /\ featureSetups = DeclaredSetups
  /\ allDependencies = << >>
  /\ allDevDependencies = << >>
  /\ pkgUpdates = EmptyUpdates
  /\ allImportsToAdd = << >>
  /\ allUsesToAdd = << >>
  /\ mainFile = NoFile
  /\ pkgFile = MissingJson
  /\ seedMain = NoFile
  /\ seedPkg = MissingJson
  /\ log = << >>
  /\ err = ""
  /\ written = {}
  /\ missing = ""
  /\ installArgs = << >>
  /\ argName = None
  /\ argTemplate = None
  /\ dirs = {}
  /\ viteConfig = NoFile
  /\ lpc = "idle"

mainVars == <<pc, i, options, featureSetups, allDependencies, allDevDependencies,
              pkgUpdates, allImportsToAdd, allUsesToAdd, mainFile, pkgFile,
              seedMain, seedPkg, log, err, written, missing,
              installArgs, argName, argTemplate, dirs, viteConfig, lpc>>

\* if (!fs.existsSync(templatePath)) throw
CopyTemplateMissing ==
  /\ rpc = "copyTemplate"
  /\ ~template.exists
  /\ rpc' = "thrown"
  /\ UNCHANGED <<template, replacements, rcontent, entry, mainVars>>

\* content = fs.readFileSync(templatePath, 'utf-8')
CopyTemplateRead ==
  /\ rpc = "copyTemplate"
  /\ template.exists
  /\ rcontent' = Some(template.content)
  /\ rpc' = "loop"
  /\ UNCHANGED <<template, replacements, entry, mainVars>>

\* one round of for (const [placeholder, value] of Object.entries(replacements))
ReplaceEntry ==
  /\ rpc = "loop"
  /\ entry <= Len(replacements)
  /\ rcontent' = Some(copyTemplateEntry(Val(rcontent), replacements[entry][1],
                                       replacements[entry][2]))
  /\ entry' = entry + 1
  /\ UNCHANGED <<template, replacements, rpc, mainVars>>

\* RemoveRemaining without the cleanup: return content
RemoveRemainingKeep ==
  /\ rpc = "loop"
  /\ entry > Len(replacements)
  /\ rpc' = "returned"
  /\ UNCHANGED <<template, replacements, rcontent, entry, mainVars>>

\* return content.replace(REMAINING_PLACEHOLDERS_REGEX, '')
RemoveRemaining ==
  /\ rpc = "loop"
  /\ entry > Len(replacements)
  /\ rcontent' = Some(RemoveMatches(REMAINING_PLACEHOLDERS_REGEX, Val(rcontent), 1))
  /\ rpc' = "returned"
  /\ UNCHANGED <<template, replacements, entry, mainVars>>

NextRender ==
  \/ CopyTemplateMissing \/ CopyTemplateRead
  \/ ReplaceEntry
  \/ RemoveRemaining

RenderSpec == InitRender /\ [][NextRender]_vars

---------------------------------------------------------------------------
(* setupLightningCSS of core/lightningcss.ts *)

\* The build config is the sequence of its lines, content.split('\n'); a line
\* is the sequence of its pieces of text. The empty file is one empty line.
\* The lines of the configs: an import, a commented import, a line ending with
\* 'defineConfig({', the same before a carriage return, a defineConfig call on
\* one line, other lines, and the empty line.
ConfigLines ==
  {<<"import ", "vue from '@vitejs/plugin-vue'">>,
   <<"// ", "import ", "legacy from '@vitejs/plugin-legacy'">>,
   <<"export default ", "defineConfig({">>,
   <<"export default ", "defineConfig({", "\r">>,
   <<"export default ", "defineConfig({", " plugins: [vue()] })">>,
   <<"  ", "plugins: [vue()],">>,
   <<"})">>,
   << >>}

\* importsToAdd, as the lines it becomes in the joined text
ImportsToAdd ==
  << <<"import ", "browserslist from 'browserslist'">>,
     <<"import ", "{ browserslistToTargets } from 'lightningcss'">> >>

\* '  ' and cssConfig, as lines
CssConfig ==
  << <<"  ", "css: {">>,
     <<"    ", "transformer: 'lightningcss',">>,
     <<"    ", "lightningcss: {">>,
     <<"      ", "targets: browserslistToTargets(browserslist('>= 0.25%')),">>,
     <<"    ", "},">>,
     <<"  ", "},">>,
     <<"  ", "build: {">>,
     <<"    ", "cssMinify: 'lightningcss',">>,
     <<"  ", "},">> >>

\* the index of the last line with lines[i].startsWith('import '), 0 when
\* there is none
lastImportIndex(lines) ==
  LET startsWithImport(k) == lines[k] # << >> /\ lines[k][1] = "import "
  IN IF \E k \in 1..Len(lines) : startsWithImport(k)
     THEN CHOOSE k \in 1..Len(lines) :
            /\ startsWithImport(k)
            /\ \A j \in (k + 1)..Len(lines) : ~startsWithImport(j)
     ELSE 0

\* lines.splice(lastImportIndex + 1, 0, importsToAdd) when an import was found
SpliceImports(lines) ==
  IF lastImportIndex(lines) # 0
  THEN SubSeq(lines, 1, lastImportIndex(lines)) \o ImportsToAdd
         \o SubSeq(lines, lastImportIndex(lines) + 1, Len(lines))
  ELSE lines

\* content.replace('defineConfig({\n', ...): the first line that ends with
\* 'defineConfig({' and has a line break behind it gets the block behind it;
\* without such a line the text stays as it is
ReplaceDefineConfig(lines) ==
  LET at(k) == /\ k < Len(lines)
               /\ lines[k] # << >>
               /\ lines[k][Len(lines[k])] = "defineConfig({"
  IN IF \E k \in 1..Len(lines) : at(k)
     THEN LET k == CHOOSE k \in 1..Len(lines) : at(k) /\ \A j \in 1..(k - 1) : ~at(j)
          IN SubSeq(lines, 1, k) \o CssConfig \o SubSeq(lines, k + 1, Len(lines))
     ELSE lines

\* setupLightningCSS is called on a project with or without its build config
InitLightning ==
  /\ viteConfig \in {NoFile} \cup {File(c) : c \in UNION {[1..n -> ConfigLines] : n \in 1..MaxLines}}
  /\ lpc = "idle"
  /\ pc = "css"
  /\ i = Len(DeclaredSetups) + 1
  /\ options = CHOOSE o \in UserOptions : o.cssOption = "lightningcss"
  /\ featureSetups = DeclaredSetups
  /\ allDependencies = << >>
  /\ allDevDependencies = << >>
  /\ pkgUpdates = EmptyUpdates
  /\ allImportsToAdd = << >>
  /\ allUsesToAdd = << >>
  /\ mainFile = NoFile
  /\ pkgFile = MissingJson
  /\ seedMain = NoFile
  /\ seedPkg = MissingJson
  /\ log = << >>
  /\ err = ""
  /\ written = {}
  /\ missing = ""
  /\ installArgs = << >>
  /\ argName = None
  /\ argTemplate = None
  /\ dirs = {}
  /\ template = NoFile
  /\ replacements = << >>
  /\ rcontent = None
  /\ entry = 1
  /\ rpc = "idle"

\* fs.readFileSync throws when there is no build config; else the file is
\* read, patched and written back
SetupLightningCSS ==
  /\ lpc = "idle"
  /\ IF viteConfig.exists
     THEN /\ viteConfig' = File(ReplaceDefineConfig(SpliceImports(viteConfig.content)))
          /\ lpc' = "returned"
     ELSE /\ lpc' = "thrown"
          /\ UNCHANGED viteConfig
  /\ UNCHANGED <<pc, i, options, featureSetups, allDependencies, allDevDependencies,
                 pkgUpdates, allImportsToAdd, allUsesToAdd, mainFile, pkgFile, seedMain,
                 seedPkg, log, err, written, missing, installArgs, renderVars, promptVars>>

LightningSpec == InitLightning /\ [][SetupLightningCSS]_vars

---------------------------------------------------------------------------
(* Vocabulary of the properties *)

\* the named option is true (not false, not undefined)
On(option) == options[option] = "true"

Wrote(step) == \E k \in 1..Len(log) : log[k] = step

IsSetup(name) == \E k \in 1..Len(featureSetups) : featureSetups[k][2] = name

\* the toggle of table entry k is true (not false, not undefined)
Enabled(k) == On(featureSetups[k][1])

ResultOf(k) == CallSetup(featureSetups[k][2], options)

\* the setup functions the run has called, in call order
Invocations == SelectSeq(log, IsSetup)

\* the enabled setup functions among the first n entries of the table
EnabledSetups(n) ==
  Concat([k \in 1..n |-> IF Enabled(k) THEN <<featureSetups[k][2]>> ELSE << >>])

\* a list field of a FeatureResult; only the dependency lists are mandatory
ListOf(result, field) ==
  IF field \in {"dependencies", "devDependencies"}
  THEN result[field] ELSE OrEmpty(result[field])

\* what the enabled providers among the first n entries declare under field
DeclaredBy(field, n) ==
  Concat([k \in 1..n |-> IF Enabled(k) THEN ListOf(ResultOf(k), field) ELSE << >>])

MountCount(content) == Cardinality({k \in 1..Len(content) : IsMount(content[k])})

\* a provider (of the loop, or setupLightningCSS) threw
ProviderThrew == IsSetup(err) \/ err = "setupLightningCSS"

---------------------------------------------------------------------------
(* Properties *)

\* C1: the providers are invoked in the order of the provider table, and the
\* accumulated import and use-call lists are the concatenation, in table
\* order, of what the enabled providers passed so far declare; this holds for
\* every table, so another declared order yields the lists in that order.
C1_DeclaredOrder ==
  /\ allImportsToAdd = DeclaredBy("importsToAdd", i - 1)
  /\ allUsesToAdd = DeclaredBy("usesToAdd", i - 1)
  /\ Invocations = EnabledSetups(i - 1) \o (IF IsSetup(err) THEN <<err>> ELSE << >>)

C1_Witness ==
  /\ featureSetups = ReversedSetups
  /\ pc = "css"
  /\ Invocations = <<"setupGitHooks", "setupPinia", "setupRouter">>
  /\ allImportsToAdd = <<"import pinia from './store'", "import router from './router'">>
  /\ allUsesToAdd = <<".use(pinia)", ".use(router)">>

\* C2: with only router and pinia enabled and one mount expression in the
\* entry file, the file written is the router import, the store import, the
\* original text up to the mount expression, the four statements creating the
\* app, using router, using pinia and mounting, and the rest of the original.
C2_RouterPiniaEntry ==
  ( /\ On("needsRouter") /\ On("needsPinia")
    /\ ~On("needsEslint") /\ ~On("needsUnoCSS")
    /\ ~On("needsGitCommit")
    /\ seedMain.exists /\ MountCount(seedMain.content) = 1
    /\ Wrote("write main") )
  => \E k \in 1..Len(seedMain.content) :
       /\ IsMount(seedMain.content[k])
       /\ mainFile.content =
            <<"import router from './router'", NL, "import pinia from './store'", NL>>
              \o SubSeq(seedMain.content, 1, k - 1)
              \o <<"const app = createApp(App);", NL, "app.use(router);", NL,
                   "app.use(pinia);", NL, "app.mount('#app');">>
              \o SubSeq(seedMain.content, k + 1, Len(seedMain.content))

C2_Witness ==
  /\ On("needsRouter") /\ On("needsPinia")
  /\ ~On("needsEslint") /\ ~On("needsUnoCSS")
  /\ ~On("needsGitCommit")
  /\ seedMain = File(EntryHead \o <<MountDQ, NL>>)
  /\ pc = "done"
  /\ mainFile.content[Len(mainFile.content) - 1] = "app.mount('#app');"

\* two objects give one key different values
Collide(a, b) == \E key \in KeySet(a) \cap KeySet(b) : Get(a, key) # Get(b, key)

\* two providers whose results were merged declare one script key, or one
\* lint-staged key, with different values
MergedCollision ==
  \E j, k \in 1..(i - 1) :
    /\ j < k /\ Enabled(j) /\ Enabled(k)
    /\ \/ Collide(OrEmpty(ResultOf(j).scripts), OrEmpty(ResultOf(k).scripts))
       \/ Collide(OrEmpty(ResultOf(j).lintStaged), OrEmpty(ResultOf(k).lintStaged))

C4_MountCountFatal ==
  (seedMain.exists /\ MountCount(seedMain.content) # 1)
  => ( /\ mainFile = seedMain
       /\ ~Wrote("write main")
       /\ pc \in {"loop", "css", "updateMainFile", "exit1"} )

\* C5: the entry file and the manifest are written only after every enabled
\* provider has returned, and a run in which a provider threw leaves both as
\* the scaffolding step wrote them.
C5_WritesAfterProviders ==
  /\ ( \/ Wrote("write main") \/ Wrote("write package.json")
       \/ mainFile # seedMain \/ pkgFile # seedPkg )
     => ( /\ i = Len(featureSetups) + 1
          /\ pc \notin {"loop", "css"}
          /\ ~ProviderThrew
          /\ Invocations = EnabledSetups(Len(featureSetups)) )
  /\ ProviderThrew => (mainFile = seedMain /\ pkgFile = seedPkg /\ pc = "exit1")

C5_Witness ==
  /\ err = "setupEslint"
  /\ Invocations = <<"setupRouter", "setupPinia", "setupEslint">>
  /\ seedMain.exists /\ mainFile = seedMain
  /\ seedPkg.state = "json" /\ pkgFile = seedPkg

\* the entry file and the manifest as the scaffolding step left them
NeitherChanged == mainFile = seedMain /\ pkgFile = seedPkg

\* the entry file and the manifest both carry the whole merged result
BothComplete ==
  /\ seedMain.exists /\ seedPkg.state = "json"
  /\ mainFile = File(updateMainFileContent(seedMain.content, allImportsToAdd, allUsesToAdd))
  /\ pkgFile.state = "json"
  /\ pkgFile.doc.scripts = Some(Spread(OrEmpty(seedPkg.doc.scripts), Val(pkgUpdates.scripts)))
  /\ KeySet(OrEmpty(pkgFile.doc.dependencies)) =
       KeySet(OrEmpty(seedPkg.doc.dependencies)) \cup {allDependencies[k] : k \in 1..Len(allDependencies)}

\* C6: when updatePackageJson or installDependencies fails on the manifest,
\* the entry file and the manifest are either both unchanged or both carry
\* the complete merged result.
C6_AllOrNothing ==
  err \in {"updatePackageJson", "installDependencies"} => (NeitherChanged \/ BothComplete)

Count(seq, x) == Cardinality({k \in 1..Len(seq) : seq[k] = x})

Elements(seq) == {seq[k] : k \in 1..Len(seq)}

\* what the enabled providers of the table declare under a list field
EnabledDeclare(field) == Elements(DeclaredBy(field, Len(featureSetups)))

\* the keys the enabled providers of the table declare under a map field
EnabledDeclareKeys(field) ==
  UNION {KeySet(OrEmpty(ResultOf(k)[field])) : k \in {j \in 1..Len(featureSetups) : Enabled(j)}}

\* nothing that only the provider of entry k declares is in the accumulators
ContributesNothing(k) ==
  LET r == ResultOf(k)
      absent(field, acc) == \A x \in Elements(ListOf(r, field)) \ EnabledDeclare(field) :
                              x \notin Elements(acc)
  IN /\ absent("dependencies", allDependencies)
     /\ absent("devDependencies", allDevDependencies)
     /\ absent("importsToAdd", allImportsToAdd)
     /\ absent("usesToAdd", allUsesToAdd)
     /\ \A key \in KeySet(OrEmpty(r.scripts)) \ EnabledDeclareKeys("scripts") :
          ~Has(Val(pkgUpdates.scripts), key)
     /\ \A key \in KeySet(OrEmpty(r.lintStaged)) \ EnabledDeclareKeys("lintStaged") :
          ~Has(OrEmpty(pkgUpdates.lintStaged), key)

\* C7: a provider whose toggle is true is invoked once (when the loop reaches
\* it) and never twice; a provider whose toggle is false or undefined is
\* never invoked and nothing it declares is in the accumulated effects.
C7_EnabledOnceDisabledNever ==
  \A k \in 1..Len(featureSetups) :
    IF Enabled(k)
    THEN Count(log, featureSetups[k][2]) =
           (IF k < i \/ err = featureSetups[k][2] THEN 1 ELSE 0)
    ELSE Count(log, featureSetups[k][2]) = 0 /\ ContributesNothing(k)

C7_Witness ==
  /\ pc = "done"
  /\ options.needsGitCommit = "undefined"
  /\ options.needsPinia = "false"
  /\ Invocations = <<"setupRouter", "setupEslint", "setupUnoCSS">>
  /\ Val(pkgUpdates.scripts) = << <<"lint", "eslint . --fix">> >>
  /\ pkgUpdates.lintStaged = None

\* the manifest on disk and the manifest the scaffolding step left
Pkg == pkgFile.doc
Seed == seedPkg.doc

\* C8: with eslint and git hooks enabled, once the manifest has been updated
\* its scripts hold lint and cz with the declared values, and every script of
\* the scaffolded manifest that no enabled provider declares has its value.
C8_ScriptsMerged ==
  ( /\ On("needsEslint") /\ On("needsGitCommit")
    /\ Wrote("write package.json") )
  => LET scripts == OrEmpty(Pkg.scripts)
         before == OrEmpty(Seed.scripts)
     IN /\ Has(scripts, "lint") /\ Get(scripts, "lint") = "eslint . --fix"
        /\ Has(scripts, "cz") /\ Get(scripts, "cz") = "cz"
        /\ \A key \in KeySet(before) \ EnabledDeclareKeys("scripts") :
             Has(scripts, key) /\ Get(scripts, key) = Get(before, key)

C8_Witness ==
  /\ On("needsEslint") /\ On("needsGitCommit")
  /\ pc = "done"
  /\ seedPkg = JsonFile(BusyManifest)
  /\ Pkg.scripts = Some(<< <<"dev", "vite">>, <<"lint", "eslint . --fix">>, <<"cz", "cz">> >>)

\* result is the map before overridden key by key by the map updates
Overridden(result, before, updates) ==
  /\ KeySet(result) = KeySet(before) \cup KeySet(updates)
  /\ \A key \in KeySet(updates) : Get(result, key) = Get(updates, key)
  /\ \A key \in KeySet(before) \ KeySet(updates) : Get(result, key) = Get(before, key)

\* scripts and lint-staged of the manifest are those of the scaffolded
\* manifest overridden by the accumulated ones
MapsMerged ==
  /\ Overridden(OrEmpty(Pkg.scripts), OrEmpty(Seed.scripts), OrEmpty(pkgUpdates.scripts))
  /\ Overridden(OrEmpty(Pkg.lintStaged), OrEmpty(Seed.lintStaged), OrEmpty(pkgUpdates.lintStaged))

Ascending(obj) == \A k \in 1..(Len(obj) - 1) : Rank(obj[k][1]) < Rank(obj[k + 1][1])

\* result holds every name of added at 'latest' and every other entry of before
LatestAdded(result, before, added) ==
  /\ KeySet(result) = KeySet(before) \cup added
  /\ \A name \in added : Get(result, name) = "latest"
  /\ \A name \in KeySet(before) \ added : Get(result, name) = Get(before, name)

\* C10: once installDependencies has written the manifest, dependencies and
\* devDependencies are in ascending key order, every accumulated name (and
\* pnpm, which installDependencies adds for that package manager) is present
\* at 'latest', and every other scaffolded entry has its version.
C10_DependenciesSorted ==
  Wrote("exec install")
  => /\ IsSome(Pkg.dependencies) /\ IsSome(Pkg.devDependencies)
     /\ Ascending(Val(Pkg.dependencies))
     /\ Ascending(Val(Pkg.devDependencies))
     /\ LatestAdded(Val(Pkg.dependencies), OrEmpty(Seed.dependencies),
                    Elements(allDependencies))
     /\ LatestAdded(Val(Pkg.devDependencies), OrEmpty(Seed.devDependencies),
                    Elements(allDevDependencies) \cup
                      (IF options.packageManager = "pnpm" THEN {"pnpm"} ELSE {}))

C10_Witness ==
  /\ pc = "done"
  /\ seedPkg = JsonFile(BusyManifest)
  /\ Pkg.dependencies =
       Some(<< <<"pinia", "latest">>, <<"vue", "^3.5.0">>, <<"z-lib", "1.0">> >>)
  /\ Has(Val(Pkg.devDependencies), "pnpm")
  /\ Get(Val(Pkg.devDependencies), "vite") = "^7.0.0"

---------------------------------------------------------------------------
(* Vocabulary of the properties of copyTemplate *)

Returned == rpc = "returned"
Tpl == template.content
Out == Val(rcontent)

SingleEntry == Len(replacements) = 1
Key == replacements[1][1]
Value == replacements[1][2]

Contains(text, tok) == \E k \in 1..Len(text) : text[k] = tok

IsPlaceholder(tok) == tok.t = "ph"

\* positions j and k of text are on one line (a line break ends its line)
SameLine(text, j, k) ==
  LET lo == IF j < k THEN j ELSE k
      hi == IF j < k THEN k ELSE j
  IN  \A m \in lo..(hi - 1) : text[m].t # "nl"

\* the token at q has only white space around it on its line
AloneOnLine(text, q) ==
  \A k \in 1..Len(text) : (k # q /\ SameLine(text, k, q)) => text[k].t \in {"ws", "nl"}

\* the placeholder of name occurs in text, and only alone on a line
OnlyAlone(text, name) ==
  /\ Contains(text, Placeholder(name))
  /\ \A q \in 1..Len(text) : text[q] = Placeholder(name) => AloneOnLine(text, q)

Falsy(value) == value = Str(<< >>) \/ value = Bool("false")

\* C11: when the placeholder of the only context key stands alone on its
\* line(s) and the value is falsy ('' or false), the output holds neither the
\* placeholder nor the text of the value, and is shorter than the template
\* (the line is gone).
C11_FalsyLineDeleted ==
  (Returned /\ SingleEntry /\ Falsy(Value) /\ OnlyAlone(Tpl, Key))
  => /\ ~Contains(Out, Placeholder(Key))
     /\ \A k \in 1..Len(String(Value)) : ~Contains(Out, String(Value)[k])
     /\ Len(Out) < Len(Tpl)

NonEmptyString(value) == value.type = "string" /\ value.text # << >>

\* text with every placeholder of name replaced by the tokens of value
Substituted(text, name, value) ==
  Concat([k \in 1..Len(text) |->
            IF text[k] = Placeholder(name) THEN value ELSE <<text[k]>>])

\* C12: when the placeholder of the only context key stands alone on its
\* line(s) and the value is a non-empty string, the output is the template
\* with exactly that token replaced by the value as it is; every other token
\* (the blanks before it, every other line) is unchanged.
C12_LineReplacedVerbatim ==
  (Returned /\ SingleEntry /\ NonEmptyString(Value) /\ OnlyAlone(Tpl, Key))
  => Out = Substituted(Tpl, Key, String(Value))

\* C13: when the value of the only context key is boolean true, the output
\* holds no word 'true' and no placeholder of the key: the placeholder is
\* rendered as an empty token, its line is kept.
C13_TrueIsEmptyToken ==
  (Returned /\ SingleEntry /\ Value = Bool("true") /\ Contains(Tpl, Placeholder(Key)))
  => /\ ~Contains(Out, Word(<<"true">>))
     /\ ~Contains(Out, Placeholder(Key))

C15_TextLinesKept ==
  Returned => Count(Out, X) = Count(Tpl, X)

\* C16: the output does not depend on the order of the context entries.
C16_OrderIndependent ==
  (Returned /\ Len(replacements) = 2)
  => Out = copyTemplateText(Tpl, <<replacements[2], replacements[1]>>)

NoPlaceholderIn(text) == \A k \in 1..Len(text) : ~IsPlaceholder(text[k])

\* C17: a round of the loop for a key replaces the placeholders of exactly
\* that name: the placeholders of every other name stay as many as they were
\* (the value holding none), and for a plain word as value every placeholder
\* of the key has become that word.
C17_KeyIsLiteral ==
  [][ReplaceEntry =>
       LET key == replacements[entry][1]
           value == replacements[entry][2]
           before == Val(rcontent)
           after == Val(rcontent')
       IN  /\ NoPlaceholderIn(String(value)) =>
                \A n \in Names \ {key} :
                  Count(after, Placeholder(n)) = Count(before, Placeholder(n))
           /\ value = Str(<<V>>) =>
                /\ Count(after, Placeholder(key)) = 0
                /\ Count(after, V) = Count(before, V) + Count(before, Placeholder(key))
    ]_vars

\* the round for the key "a.c" has replaced {{ a.c }} and left {{ abc }}
C17_Witness ==
  /\ rpc = "loop" /\ entry = 2
  /\ replacements[1] = <<NameDot, Str(<<V>>)>>
  /\ Tpl = <<X, Placeholder(NameDot), X, Placeholder(NameABC)>>
  /\ Out = <<X, V, X, Placeholder(NameABC)>>

\* C19: a template without placeholders is returned as it is, whatever the
\* context.
C19_PlainTemplateUnchanged ==
  (Returned /\ NoPlaceholderIn(Tpl)) => Out = Tpl

\* a plain template of several lines rendered with a context of two entries
C19_Witness ==
  /\ Returned
  /\ Len(replacements) = 2
  /\ Tpl = <<X, Newline, Newline, Blank>>
  /\ Out = Tpl

---------------------------------------------------------------------------
(* Properties of the failures of main() *)

Last(seq) == seq[Len(seq)]

ProviderNames == {DeclaredSetups[k][2] : k \in 1..Len(DeclaredSetups)}

\* what main() does after installDependencies has rewritten the manifest
InstallAndLater ==
  {"exec install", "exec eslint", "exec git init", "exec husky init",
   "write .husky", "exec prepare", "write README", "log success"}

\* the state a failure of the named kind leaves
AbortedCleanly ==
  /\ err # "" => pc = "exit1"
  /\ err \in ProviderNames =>
       /\ Last(log) = err
       /\ Invocations = EnabledSetups(i)
  /\ err \in ProviderNames \cup {"updateMainFile"} =>
       /\ ~Wrote("write main")
       /\ mainFile = seedMain
  /\ err \in ProviderNames \cup {"updateMainFile", "updatePackageJson"} =>
       /\ ~Wrote("write package.json")
       /\ pkgFile = seedPkg
  /\ err \in ProviderNames \cup {"updateMainFile", "updatePackageJson", "installDependencies"} =>
       \A k \in 1..Len(log) : log[k] \notin InstallAndLater

\* a step that fails keeps what is on disk: the provider files, the entry
\* file, and the manifest unless the step itself has written it before failing
KeepsFiles ==
  (err' # "") =>
    /\ written \subseteq written'
    /\ mainFile' = mainFile
    /\ (pkgFile' = pkgFile \/ Last(log') \in InstallAndLater)

\* C20: a failure ends the run with exit code 1 and nothing runs after it: no
\* later provider, no later write of the entry file or the manifest, no
\* install or post-install command; the step that fails leaves the files
\* written before it as they are.
C20_FailureAborts ==
  /\ []AbortedCleanly
  /\ [][err = "" /\ KeepsFiles]_vars

\* updatePackageJson fails after providers have written their files and
\* updateMainFile has rewritten the entry file: both are still there
C20_Witness ==
  /\ pc = "exit1"
  /\ err = "updatePackageJson"
  /\ Wrote("write main")
  /\ mainFile # seedMain
  /\ "src/router/index.js" \in written
  /\ pkgFile = seedPkg

---------------------------------------------------------------------------
(* Properties of the accumulation and of the installation *)

DirsAtPrompt ==
  IF pc \in {"promptUserOptions", "promptRest", "createProject", "exit1"}
  THEN dirs
  ELSE dirs \ {options.projectName}

\* C23: the validation accepts a name exactly when it is non-empty and no
\* directory of that name exists; the empty name gets the empty-name message,
\* not the message of the lookup, and an existing directory gets the message
\* that names its path.
C23_ValidationResult ==
  /\ \A m \in {log[j] : j \in 1..Len(log)} \ {"mkdir " \o n : n \in NameInputs} :
       \/ m = EmptyNameMessage
       \/ \E n \in DirsAtPrompt : n # "" /\ m = ExistsMessage(n)
  /\ pc \notin {"promptUserOptions", "exit1"} =>
       /\ options.projectName # ""
       /\ options.projectName \notin DirsAtPrompt
  /\ IsSome(argName) /\ Val(argName) # "" /\ pc # "promptUserOptions" =>
       /\ Val(argName) \notin DirsAtPrompt <=> err = ""
       /\ Val(argName) \in DirsAtPrompt => Last(log) = ExistsMessage(Val(argName))

C23_Witness ==
  /\ pc = "scaffoldVite"
  /\ dirs = {"new", "old"}
  /\ log = <<EmptyNameMessage, ExistsMessage("old"), "mkdir new">>

\* C27 as stated: a --name that fails validation, the empty name included,
\* makes the run exit before anything is created.
C27_EveryInvalidNameRejects ==
  [][/\ pc # "exit1"
     /\ pc = "promptUserOptions" /\ IsSome(argName)
          /\ validateProjectName(Val(argName), dirs) # "true"
        => pc' = "exit1" /\ err' = "promptUserOptions" /\ dirs' = dirs]_vars

\* C27: a non-empty --name that names an existing directory makes
\* promptUserOptions reject: the run exits with code 1 and takes no further
\* step, no directory is created. (An empty --name is asked again at the
\* prompt.)
C27_InvalidNameRejects ==
  [][/\ pc # "exit1"
     /\ pc = "promptUserOptions" /\ IsSome(argName) /\ Val(argName) # ""
          /\ validateProjectName(Val(argName), dirs) # "true"
        => pc' = "exit1" /\ err' = "promptUserOptions" /\ dirs' = dirs]_vars

C27_Witness ==
  /\ pc = "exit1"
  /\ argName = Some("old")
  /\ dirs = {"old"}
  /\ log = <<ExistsMessage("old")>>
  /\ err = "promptUserOptions"

(* Properties of a run with the answers of the prompt *)

\* the manifest file has the key under the field
Listed(file, field, key) == file.state = "json" /\ Has(OrEmpty(file.doc[field]), key)

\* C22: after a successful run on a generated manifest that lists none of
\* them, vue-router is a dependency iff router was selected, pinia is a
\* dependency iff pinia was selected, husky is a dev-dependency iff git hooks
\* were selected, and sass-embedded is a dev-dependency when the CSS
\* pre-processor answered at the prompt is Sass.
C22_FeaturePackagesListed ==
  ( /\ pc = "done"
    /\ ~Listed(seedPkg, "dependencies", "vue-router")
    /\ ~Listed(seedPkg, "dependencies", "pinia")
    /\ ~Listed(seedPkg, "devDependencies", "husky") )
  => /\ Listed(pkgFile, "dependencies", "vue-router") <=> On("needsRouter")
     /\ Listed(pkgFile, "dependencies", "pinia") <=> On("needsPinia")
     /\ Listed(pkgFile, "devDependencies", "husky") <=> On("needsGitCommit")
     /\ options.cssPreprocessor = "sass" => Listed(pkgFile, "devDependencies", "sass-embedded")

\* C26: the answers of the prompt have needsGitCommit true only with
\* needsEslint true; so a manifest that gets the lint-staged entry running
\* eslint or the cz script also gets the lint script, and the eslint
\* dev-dependency once the dependencies are written.
C26_HooksOnlyWithEslint ==
  /\ pc \notin {"promptUserOptions", "promptRest", "exit1"} =>
       (On("needsGitCommit") => On("needsEslint"))
  /\ ( /\ ~Listed(seedPkg, "lintStaged", "*.{js,ts,vue}")
       /\ ~Listed(seedPkg, "scripts", "cz")
       /\ Listed(pkgFile, "lintStaged", "*.{js,ts,vue}") \/ Listed(pkgFile, "scripts", "cz") )
     => /\ Listed(pkgFile, "scripts", "lint")
        /\ Wrote("exec install") => Listed(pkgFile, "devDependencies", "eslint")

C26_Witness ==
  /\ pc = "done"
  /\ On("needsGitCommit") /\ On("needsEslint")
  /\ seedPkg = JsonFile(ViteManifest)
  /\ Get(OrEmpty(pkgFile.doc.lintStaged), "*.{js,ts,vue}") = "npx eslint --fix"
  /\ Listed(pkgFile, "scripts", "cz") /\ Listed(pkgFile, "scripts", "lint")
  /\ Listed(pkgFile, "devDependencies", "eslint")

(* Properties of the order of installation and hooks *)

\* the place of the first occurrence of a step in the log, 0 when absent
Place(step) ==
  IF Wrote(step)
  THEN CHOOSE k \in 1..Len(log) : log[k] = step /\ \A j \in 1..(k - 1) : log[j] # step
  ELSE 0

\* C24: 'husky init' and the writing of the hook files happen only with git
\* hooks selected, after the manifest with all accumulated dependencies was
\* written and the install command has run and succeeded.
C24_HuskyAfterInstall ==
  \A k \in 1..Len(log) :
    log[k] \in {"exec husky init", "write .husky"} =>
      /\ On("needsGitCommit")
      /\ \E j \in 2..(k - 1) : log[j] = "exec install" /\ log[j - 1] = "write package.json"
      /\ err # "exec install"
      /\ \A d \in Elements(allDependencies) : Listed(pkgFile, "dependencies", d)
      /\ \A d \in Elements(allDevDependencies) : Listed(pkgFile, "devDependencies", d)

C24_Witness ==
  /\ pc = "done"
  /\ On("needsGitCommit") /\ On("needsRouter")
  /\ Place("exec install") > 0
  /\ Place("exec husky init") > Place("exec install")
  /\ Place("write .husky") > Place("exec husky init")
  /\ Listed(pkgFile, "devDependencies", "husky") /\ Listed(pkgFile, "dependencies", "vue-router")

\* the steps that come before the installation in main()
BeforeInstall ==
  ProviderNames \cup {"exec create vite", "setupLightningCSS", "write main", "setupVSCode"}

C30_SuccessOnlyAfterSuccess ==
  Wrote("log success") =>
    /\ err = ""
    /\ ~Wrote("fail Git Hooks")
    /\ On("needsGitCommit") => Wrote("write .husky") /\ Wrote("exec prepare")

(* Properties of the placeholders of context keys *)

\* C28: the output of copyTemplate holds no placeholder of a key of the
\* context, whatever the value and wherever the placeholder stands; so also
\* for the value '' and a template with the placeholder alone on one line and
\* inside the text of another.
C28_NoKnownPlaceholderLeft ==
  Returned =>
    \A e \in 1..Len(replacements) : ~Contains(Out, Placeholder(replacements[e][1]))

(* Properties of setupLightningCSS *)

\* the lines of block follow each other in lines
HasBlock(lines, block) ==
  \E k \in 0..(Len(lines) - Len(block)) :
    \A j \in 1..Len(block) : lines[k + j] = block[j]

\* C29: after setupLightningCSS the build config holds the css and build
\* block iff it holds the two import statements the block needs.
C29_BlockIffImports ==
  lpc = "returned" =>
    (HasBlock(viteConfig.content, CssConfig) <=> HasBlock(viteConfig.content, ImportsToAdd))
====
